---------------------------- MODULE Spec2Model ----------------------------
(***************************************************************************)
(* The Cosmos event indexer of hyperlane-cosmos (providers/rpc.rs):        *)
(* CosmosWasmIndexer::new, get_contract_addr, get_client,                  *)
(* latest_block_height and get_range_event_logs, run against a Tendermint  *)
(* RPC node whose chain state is fixed during a behaviour.                 *)
(*                                                                         *)
(* A call of get_range_event_logs is a sequence of steps separated by its  *)
(* await points: the synchronous prefix up to the first tx_search request, *)
(* then one step per tx_search response.  Several calls may be in flight   *)
(* on the one shared indexer (&self).                                      *)
(***************************************************************************)
EXTENDS Integers, Sequences, FiniteSets, TLC

(***************************************************************************)
(* Bounds of the model.                                                    *)
(***************************************************************************)
\* Heights of the blocks of the node's chain are 1..MaxHeight.
MaxHeight == 2

(***************************************************************************)
(* Program constants.                                                      *)
(***************************************************************************)
\* rpc.rs:16   const PAGINATION_LIMIT: u8 = 100;
PAGINATION_LIMIT == 100

\* rpc.rs:53   const WASM_TYPE: &str = "wasm";
WASM_TYPE == "wasm"

(***************************************************************************)
(* Values.                                                                 *)
(***************************************************************************)
\* The state of the indexer slot before CosmosWasmIndexer::new has run.
NotConstructed == [constructed |-> FALSE]

\* Two 256-bit contract digests: the Mailbox the indexer is built for, and
\* another contract of the same chain that emits events of the same kind.
MailboxDigest == "0xMAILBOX"
OtherDigest == "0xOTHER"

\* Address prefixes (the human-readable part of a bech32 address).  The chain
\* encodes its addresses with ChainPrefix; WrongPrefix is a well-formed prefix
\* of another chain; BadPrefix is not a legal human-readable part.
ChainPrefix == "osmo"
WrongPrefix == "cosmos"
BadPrefix == ""

GoodUrl == "http://node:26657"
BadUrl == "not a url"

\* The event subtype the caller indexes, and another subtype of the contract.
DispatchType == "mailbox_dispatch"
ProcessType == "mailbox_process"

\* Option<T>::None of the caller's parser.
None == [some |-> FALSE]
Some(v) == [some |-> TRUE, value |-> v]

\* ChainResult<T>
Ok(v) == [ok |-> TRUE, value |-> v]
Err(e) == [ok |-> FALSE, error |-> e]

(***************************************************************************)
(* crate::verify and crate::binary (address and hash conversions).         *)
(***************************************************************************)
\* A bech32 human-readable part is 1 to 83 characters.
ValidHrp(prefix) == prefix # BadPrefix

\* verify::digest_to_addr(digest, prefix) -> ChainResult<String>: the bech32
\* text of the digest under the prefix.  The text is modelled by its two
\* parts, which determine it and are determined by it.
digest_to_addr(digest, prefix) ==
    IF ValidHrp(prefix)
    THEN Ok([hrp |-> prefix, data |-> digest])
    ELSE Err("bech32 encode")

\* verify::bech32_decode(addr) -> H256: the data part, whatever the prefix.
bech32_decode(addr) == addr.data

\* binary::h256_to_h512: the 256-bit hash widened with zero high bits.
h256_to_h512(h) == <<0, h>>

\* H256::zero()
H256_zero == 0

(***************************************************************************)
(* trait_builder.rs: ConnectionConf.                                       *)
(***************************************************************************)
ConnectionConf_new(grpc_url, rpc_url, chain_id, prefix) ==
    [grpc_url |-> grpc_url, rpc_url |-> rpc_url,
     chain_id |-> chain_id, prefix |-> prefix]

get_rpc_url(conf) == conf.rpc_url

get_prefix(conf) == conf.prefix

\* The configurations the model constructs indexers from: the node's own,
\* and three that each get one field wrong.
GoodConf == ConnectionConf_new("http://node:9090", GoodUrl, "osmosis-1", ChainPrefix)

Confs ==
    { GoodConf,
      ConnectionConf_new("http://node:9090", GoodUrl, "osmosis-1", WrongPrefix),
      ConnectionConf_new("http://node:9090", GoodUrl, "osmosis-1", BadPrefix),
      ConnectionConf_new("http://node:9090", BadUrl, "osmosis-1", ChainPrefix) }

(***************************************************************************)
(* The node: its chain, and its tx_search and latest_block endpoints.      *)
(* The chain is described by the number of transactions of each block      *)
(* (blocks) and by the kinds of transaction that alternate in it (shape).  *)
(***************************************************************************)
VARIABLES
    blocks,     \* node: height -> number of transactions of the block
    shape,      \* node: <<kind of the even transactions, kind of the odd ones>>
    head,       \* node: the u64 height latest_block reports, [hi, lo] = hi * 2^32 + lo
    visible,    \* node: the highest block whose transactions tx_search has indexed
    indexer,    \* the CosmosWasmIndexer (conf, domain, address, event_type)
    pc,         \* per call: "idle", "await" (a tx_search in flight), "done"
    range,      \* per call: the RangeInclusive<u32> argument, <<start, end>>
    page,       \* per call: the page of the tx_search in flight
    last_page,  \* per call: last_page, once page 1 has answered
    result,     \* per call: the local accumulator `result`
    requests,   \* per call: the pages requested of the node so far, in order
    failed,     \* per call: the pages whose tx_search failed, in order
    totals,     \* per call: the total_count of each response received, in order
    ret,        \* per call: the returned ChainResult
    hpc,        \* latest_block_height: "idle", "await", "done"
    hret,       \* latest_block_height: the returned ChainResult<u32>
    hasked,     \* latest_block_height: the heights the node reported to this call
    paging      \* the last_page computation applied to a total_count of any width

vars == <<blocks, shape, head, visible, indexer, pc, range, page, last_page,
          result, requests, failed, totals, ret, hpc, hret, hasked, paging>>

nodeVars == <<blocks, shape, head, visible>>
callVars == <<pc, range, page, last_page, result, requests, failed, totals, ret>>
heightVars == <<hpc, hret, hasked>>

\* The calls of get_range_event_logs that may be in flight together.
Calls == {"A", "B"}

\* Numbers of transactions a block may hold.
BlockSizes == {100, 150}

\* Kinds of transaction.
TxKinds == {"ok", "failed", "mixed", "foreign"}

NativeAddr(digest) == [hrp |-> ChainPrefix, data |-> digest]

\* An event and its attributes: the emitting contract, the message body, and
\* whether the attributes follow the schema the caller's parser expects.
Event(kind, digest, body, wellformed) ==
    [kind |-> kind,
     attributes |-> [_contract_address |-> NativeAddr(digest),
                     body |-> body,
                     wellformed |-> wellformed]]

\* The events a transaction of each kind emitted at (height h, index i).
\*   ok      one dispatch event of the Mailbox
\*   failed  the same, in a transaction whose execution failed
\*   mixed   an event of another subtype, a dispatch, a dispatch whose
\*           attributes do not decode, a dispatch of another contract, a dispatch
\*   foreign a dispatch of another contract only (no match for the Mailbox)
TxEvents(kind, h, i) ==
    LET id == h * 10000 + i * 10 IN
    CASE kind = "ok" -> << Event(<<WASM_TYPE, DispatchType>>, MailboxDigest, id, TRUE) >>
      [] kind = "failed" -> << Event(<<WASM_TYPE, DispatchType>>, MailboxDigest, id, TRUE) >>
      [] kind = "mixed" ->
            << Event(<<WASM_TYPE, ProcessType>>, MailboxDigest, id, TRUE),
               Event(<<WASM_TYPE, DispatchType>>, MailboxDigest, id + 1, TRUE),
               Event(<<WASM_TYPE, DispatchType>>, MailboxDigest, id + 2, FALSE),
               Event(<<WASM_TYPE, DispatchType>>, OtherDigest, id + 3, TRUE),
               Event(<<WASM_TYPE, DispatchType>>, MailboxDigest, id + 4, TRUE) >>
      [] kind = "foreign" ->
            << Event(<<WASM_TYPE, DispatchType>>, OtherDigest, id, TRUE) >>

\* tx::Response of the transaction at (height h, index i).
TxAt(h, i) ==
    LET kind == IF (h + i) % 2 = 0 THEN shape[1] ELSE shape[2] IN
    [hash |-> h * 1000 + i,
     height |-> h,
     index |-> i,
     code_is_err |-> (kind = "failed"),
     events |-> TxEvents(kind, h, i)]

\* The transactions of block h, in index order.
BlockTxs(h) == [k \in 1..blocks[h] |-> TxAt(h, k - 1)]

\* The transactions of blocks lo..hi, in (height, index) order.
RECURSIVE ChainTxs(_, _)
ChainTxs(lo, hi) ==
    IF lo > hi THEN <<>> ELSE ChainTxs(lo, hi - 1) \o BlockTxs(hi)

\* Whether a transaction satisfies a query: its height is within the bounds
\* and one of its events has the queried kind with the queried
\* _contract_address attribute.
Matches(tx, query) ==
    /\ tx.height >= query.gte
    /\ tx.height <= query.lte
    /\ \E k \in 1..Len(tx.events) :
          /\ tx.events[k].kind = query.kind
          /\ tx.events[k].attributes._contract_address = query.value

Reverse(s) == [k \in 1..Len(s) |-> s[Len(s) + 1 - k]]

Min(a, b) == IF a <= b THEN a ELSE b
Max(a, b) == IF a >= b THEN a ELSE b

\* Every transaction the node has indexed that satisfies the query, in the
\* order asked.
SearchAll(query, order) ==
    LET lo == Max(1, query.gte)
        hi == Min(visible, query.lte)
        all == SelectSeq(ChainTxs(lo, hi), LAMBDA tx : Matches(tx, query))
    IN  IF order = "Ascending" THEN all ELSE Reverse(all)

\* The node's answer to tx_search(query, prove, page, per_page, order): the
\* page-th slice of per_page matches and the count of all matches; a page
\* outside 1..pages (pages at least 1) is refused.
tx_search(query, pg, per_page, order) ==
    LET all == SearchAll(query, order)
        total == Len(all)
        pages == Max(1, (total + per_page - 1) \div per_page)
        skip == (pg - 1) * per_page
    IN  IF pg < 1 \/ pg > pages
        THEN Err("page out of range")
        ELSE Ok([txs |-> SubSeq(all, skip + 1, Min(total, skip + per_page)),
                 total_count |-> total])

(***************************************************************************)
(* providers/rpc.rs: CosmosWasmIndexer.                                    *)
(***************************************************************************)
\* CosmosWasmIndexer::new(conf, locator, event_type) -> Self
CosmosWasmIndexer_new(conf, locator, event_type) ==
    [constructed |-> TRUE,
     conf |-> conf,
     domain |-> locator.domain,
     address |-> locator.address,
     event_type |-> event_type]

get_conn_url(self) == Ok(get_rpc_url(self.conf))

get_contract_addr(self) == digest_to_addr(self.address, get_prefix(self.conf))

\* get_client: the url must parse.
get_client(self) ==
    IF get_conn_url(self).value = GoodUrl THEN Ok("client") ELSE Err("url parse")

\* The caller's decode function: fn(Vec<EventAttribute>) -> Option<T>.
parser(attributes) ==
    IF attributes.wellformed THEN Some(attributes.body) ELSE None

\* Mutant of Query: the upper bound of the height is exclusive (and_lt).
QueryExclusiveEnd(self, r, contract_address) ==
    [gte |-> r[1],
     lte |-> r[2] - 1,
     kind |-> <<WASM_TYPE, self.event_type>>,
     value |-> contract_address]

\* The query built from the range and the indexer (rpc.rs:103-109).
Query(self, r, contract_address) ==
    [gte |-> r[1],
     lte |-> r[2],
     kind |-> <<WASM_TYPE, self.event_type>>,
     value |-> contract_address]

\* A u32 as two 16-bit halves <<hi, lo>> = hi * 2^16 + lo, so that the whole
\* range of total_count is within reach of the arithmetic below.
Half == 65536

ToU32(n) == <<(n \div Half) % Half, n % Half>>

\* The number a u32 holds, for values below 2^31.
FromU32(x) == x[1] * Half + x[2]

\* u32 / d and u32 % d by long division over the halves, d below 2^15.
U32DivRem(x, d) ==
    LET t == (x[1] % d) * Half + x[2]
    IN  [quot |-> <<x[1] \div d, t \div d>>, rem |-> t % d]

\* u32 + u32: the sum modulo 2^32, and whether it left the range of u32.
U32Add(x, y) ==
    LET lo == x[2] + y[2]
        hi == x[1] + y[1] + (lo \div Half)
    IN  [value |-> <<hi % Half, lo % Half>>, overflow |-> hi >= Half]

\* last_page over the whole of u32 (rpc.rs:118-119): the quotient by
\* PAGINATION_LIMIT, plus one when the remainder is not zero.
LastPageU32(total_count) ==
    LET dr == U32DivRem(total_count, PAGINATION_LIMIT)
    IN  U32Add(dr.quot, ToU32(IF dr.rem # 0 THEN 1 ELSE 0))

\* Mutant of LastPage: the quotient alone, a partial last page is not counted.
LastPageFloor(total_count) == total_count \div PAGINATION_LIMIT

\* last_page from the total_count of the first response (rpc.rs:118-119).
LastPage(total_count) == FromU32(LastPageU32(ToU32(total_count)).value)

\* Mutant of LogMetaOf: the transaction's hash stands in for the block hash.
LogMetaOfTxHash(contract_address, tx, log_idx) ==
    [address |-> bech32_decode(contract_address),
     block_number |-> tx.height,
     block_hash |-> tx.hash,
     transaction_id |-> h256_to_h512(tx.hash),
     transaction_index |-> tx.index,
     log_index |-> log_idx]

\* The LogMeta built for the event at position log_idx of tx (rpc.rs:139-147).
LogMetaOf(contract_address, tx, log_idx) ==
    [address |-> bech32_decode(contract_address),
     block_number |-> tx.height,
     block_hash |-> H256_zero,
     transaction_id |-> h256_to_h512(tx.hash),
     transaction_index |-> tx.index,
     log_index |-> log_idx]

\* Whether the inner loop keeps an event (rpc.rs:137-138).
Kept(self, event) ==
    /\ event.kind = <<WASM_TYPE, self.event_type>>
    /\ parser(event.attributes).some

\* Mutant of ParseResult: log_index counts the kept events only (the
\* position in parse_result, not in the transaction's event list).
ParseResultKeptIndex(self, contract_address, tx) ==
    LET n == Len(tx.events)
        acc[k \in 0..n] ==
            IF k = 0 THEN <<>>
            ELSE IF /\ tx.events[k].kind = <<WASM_TYPE, self.event_type>>
                    /\ parser(tx.events[k].attributes).some
                 THEN Append(acc[k - 1],
                             <<parser(tx.events[k].attributes).value,
                               [address |-> bech32_decode(contract_address),
                                block_number |-> tx.height,
                                block_hash |-> 0,
                                transaction_id |-> h256_to_h512(tx.hash),
                                transaction_index |-> tx.index,
                                log_index |-> Len(acc[k - 1])]>>)
                 ELSE acc[k - 1]
    IN  acc[n]

\* Mutant of ParseResult: the inner loop ends at the first event of the
\* target kind that the parser rejects.
ParseResultStopAtNone(self, contract_address, tx) ==
    LET n == Len(tx.events)
        rejected == { k \in 1..n : /\ tx.events[k].kind = <<WASM_TYPE, self.event_type>>
                                   /\ ~parser(tx.events[k].attributes).some }
        acc[k \in 0..n] ==
            IF k = 0 THEN <<>>
            ELSE IF \E j \in rejected : j <= k THEN acc[k - 1]
            ELSE IF tx.events[k].kind = <<WASM_TYPE, self.event_type>>
                 THEN Append(acc[k - 1],
                             <<parser(tx.events[k].attributes).value,
                               [address |-> bech32_decode(contract_address),
                                block_number |-> tx.height,
                                block_hash |-> 0,
                                transaction_id |-> h256_to_h512(tx.hash),
                                transaction_index |-> tx.index,
                                log_index |-> k - 1]>>)
                 ELSE acc[k - 1]
    IN  acc[n]

\* parse_result of one transaction: the inner loop (rpc.rs:134-152).
ParseResult(self, contract_address, tx) ==
    LET n == Len(tx.events)
        acc[k \in 0..n] ==
            IF k = 0 THEN <<>>
            ELSE IF Kept(self, tx.events[k])
                 THEN Append(acc[k - 1],
                             <<parser(tx.events[k].attributes).value,
                               LogMetaOf(contract_address, tx, k - 1)>>)
                 ELSE acc[k - 1]
    IN  acc[n]

\* Mutant of Skipped: the check of the execution code is missing.
SkippedNever(tx) == FALSE

\* Whether the outer loop skips a transaction (rpc.rs:129-132).
Skipped(tx) == tx.code_is_err

\* The concatenation parts[lo] \o ... \o parts[hi], in index order.
RECURSIVE Concat(_, _, _)
Concat(parts, lo, hi) ==
    IF lo > hi THEN <<>>
    ELSE IF lo = hi THEN parts[lo]
    ELSE LET mid == (lo + hi) \div 2
         IN  Concat(parts, lo, mid) \o Concat(parts, mid + 1, hi)

\* The closure `handler` (rpc.rs:121-158): the outer loop extends `result`
\* with the parse_result of each transaction it does not skip, in the order
\* of txs.
handler(self, contract_address, txs) ==
    LET parts == [k \in 1..Len(txs) |->
                    IF Skipped(txs[k]) THEN <<>>
                    ELSE ParseResult(self, contract_address, txs[k])]
    IN  Concat(parts, 1, Len(txs))

\* Mutant of SearchOrder: the searches ask for Order::Descending.
SearchOrderDescending == "Descending"

\* The order every tx_search of the indexer asks for (rpc.rs:114, 171).
SearchOrder == "Ascending"

\* Mutant of Extend: the accumulator is one buffer that the calls share.
ExtendShared(c, logs) == [k \in Calls |-> result[k] \o logs]

\* What `result.extend(logs)` leaves in the accumulators (rpc.rs:175): the
\* accumulator is a local of the call.
Extend(c, logs) == [result EXCEPT ![c] = @ \o logs]

\* Mutant of NextPage: the page cursor is one counter that the calls share.
NextPageShared(c) ==
    (CHOOSE p \in { page[k] : k \in Calls } : \A k \in Calls : page[k] <= p) + 1

\* The page the loop `for page in 2..=last_page` (rpc.rs:162) requests after
\* the page call c has just handled.
NextPage(c) == page[c] + 1

(***************************************************************************)
(* Actions.                                                                *)
(***************************************************************************)
Locators == { [domain |-> 1, address |-> MailboxDigest] }

EventTypes == { DispatchType }

\* The ranges the model calls get_range_event_logs with: <<start, end>> with
\* start and end inside, below and above the chain, start > end included.
Ranges == (1..(MaxHeight + 1)) \X (0..MaxHeight)

\* CosmosWasmIndexer::new: every configuration yields an indexer.
New(conf, locator, event_type) ==
    /\ ~indexer.constructed
    /\ indexer' = CosmosWasmIndexer_new(conf, locator, event_type)
    /\ UNCHANGED <<nodeVars, paging, callVars, heightVars>>

\* How a call returns: its locals are dropped, the value is handed back.
Return(c, value) ==
    /\ pc' = [pc EXCEPT ![c] = "done"]
    /\ ret' = [ret EXCEPT ![c] = value]
    /\ page' = [page EXCEPT ![c] = 0]
    /\ last_page' = [last_page EXCEPT ![c] = 0]
    /\ result' = [result EXCEPT ![c] = <<>>]

\* get_range_event_logs up to its first await (rpc.rs:99-115): the client,
\* the contract address, the query, and the request for page 1.
get_range_event_logs(c, r) ==
    /\ indexer.constructed
    /\ pc[c] = "idle"
    /\ range' = [range EXCEPT ![c] = r]
    /\ IF ~get_client(indexer).ok
       THEN Return(c, Err(get_client(indexer).error)) /\ UNCHANGED requests
       ELSE IF ~get_contract_addr(indexer).ok
       THEN Return(c, Err(get_contract_addr(indexer).error)) /\ UNCHANGED requests
       ELSE /\ pc' = [pc EXCEPT ![c] = "await"]
            /\ page' = [page EXCEPT ![c] = 1]
            /\ requests' = [requests EXCEPT ![c] = <<1>>]
            /\ UNCHANGED <<last_page, result, ret>>
    /\ UNCHANGED <<nodeVars, paging, indexer, failed, totals, heightVars>>

\* Mutant of OnSearchError: the failed page is requested again.
OnSearchErrorRetry(c, e) ==
    /\ requests' = [requests EXCEPT ![c] = Append(@, page[c])]
    /\ UNCHANGED <<pc, ret, page, last_page, result>>

\* What the call does when a tx_search fails: `.await?` returns the error
\* (rpc.rs:115, 173).
OnSearchError(c, e) ==
    /\ Return(c, Err(e))
    /\ UNCHANGED requests

\* The request of call c that is in flight.
PendingSearch(c) ==
    tx_search(Query(indexer, range[c], get_contract_addr(indexer).value),
              page[c], PAGINATION_LIMIT, SearchOrder)

\* Mutant of LastPageAfter: last_page follows the total_count of every
\* response.
LastPageEveryResponse(c, resp) == LastPage(resp.value.total_count)

\* last_page once a response is in: computed from the response to page 1
\* (rpc.rs:117-119), and not touched after (rpc.rs:162-176).
LastPageAfter(c, resp) ==
    IF page[c] = 1 THEN LastPage(resp.value.total_count) ELSE last_page[c]

\* The node answers a tx_search (rpc.rs:113-119, 160-178).  A refusal is
\* returned as the error it is.  Otherwise the first response fixes
\* last_page; the page is handled and appended; the next page is requested,
\* or the result returned.
TxSearchOk(c) ==
    /\ pc[c] = "await"
    /\ LET resp == PendingSearch(c)
           lp == LastPageAfter(c, resp)
           seen == [totals EXCEPT ![c] = Append(@, resp.value.total_count)]
           logs == handler(indexer, get_contract_addr(indexer).value,
                           resp.value.txs)
           acc == IF page[c] = 1 THEN [result EXCEPT ![c] = logs]
                  ELSE Extend(c, logs)
           nxt == NextPage(c)
       IN  IF ~resp.ok
           THEN /\ OnSearchError(c, resp.error)
                /\ failed' = [failed EXCEPT ![c] = Append(@, page[c])]
                /\ UNCHANGED totals
           ELSE IF nxt <= lp
           THEN /\ result' = acc
                /\ last_page' = [last_page EXCEPT ![c] = lp]
                /\ page' = [page EXCEPT ![c] = nxt]
                /\ requests' = [requests EXCEPT ![c] = Append(@, nxt)]
                /\ totals' = seen
                /\ UNCHANGED <<pc, ret, failed>>
           ELSE /\ pc' = [pc EXCEPT ![c] = "done"]
                /\ ret' = [ret EXCEPT ![c] = Ok(acc[c])]
                /\ page' = [page EXCEPT ![c] = 0]
                /\ last_page' = [last_page EXCEPT ![c] = 0]
                /\ result' = [acc EXCEPT ![c] = <<>>]
                /\ totals' = seen
                /\ UNCHANGED <<requests, failed>>
    /\ UNCHANGED <<nodeVars, paging, indexer, range, heightVars>>

\* A tx_search fails in transport: the node is unreachable, or its response
\* is malformed (rpc.rs:115, 173).
TxSearchErr(c) ==
    /\ pc[c] = "await"
    /\ failed' = [failed EXCEPT ![c] = Append(@, page[c])]
    /\ OnSearchError(c, "transport")
    /\ UNCHANGED <<nodeVars, paging, indexer, range, totals, heightVars>>

\* The node's answer to latest_block: the header's height.
latest_block == Ok([height |-> head])

\* The largest lo the heights of the model take: 2^31 - 1.
MaxLow == 2147483647

\* Mutant of AsU32: a height above the range of u32 becomes the largest value.
AsU32Saturating(h) == IF h.hi > 0 THEN MaxLow ELSE h.lo

\* `height.value() as u32`: the low 32 bits of the u64.
AsU32(h) == h.lo

\* Mutant of latest_block_height: a height returned before is returned again
\* without asking the node.
latest_block_height_cached ==
    /\ indexer.constructed
    /\ hpc \in {"idle", "done"}
    /\ hasked' = <<>>
    /\ IF ~get_client(indexer).ok
       THEN hpc' = "done" /\ hret' = Err(get_client(indexer).error)
       ELSE IF hpc = "done" /\ hret.ok
       THEN hpc' = "done" /\ UNCHANGED hret
       ELSE hpc' = "await" /\ UNCHANGED hret
    /\ UNCHANGED <<nodeVars, paging, indexer, callVars>>

\* latest_block_height up to its await (rpc.rs:85-87).  The method may be
\* called again once it has returned.
latest_block_height ==
    /\ indexer.constructed
    /\ hpc \in {"idle", "done"}
    /\ hasked' = <<>>
    /\ IF ~get_client(indexer).ok
       THEN hpc' = "done" /\ hret' = Err(get_client(indexer).error)
       ELSE hpc' = "await" /\ UNCHANGED hret
    /\ UNCHANGED <<nodeVars, paging, indexer, callVars>>

\* latest_block answers (rpc.rs:87-88).
LatestBlockOk ==
    /\ hpc = "await"
    /\ hpc' = "done"
    /\ hret' = Ok(AsU32(latest_block.value.height))
    /\ hasked' = Append(hasked, latest_block.value.height)
    /\ UNCHANGED <<nodeVars, paging, indexer, callVars>>

\* latest_block fails in transport (rpc.rs:87, `.await?`).
LatestBlockErr ==
    /\ hpc = "await"
    /\ hpc' = "done"
    /\ hret' = Err("transport")
    /\ UNCHANGED hasked
    /\ UNCHANGED <<nodeVars, paging, indexer, callVars>>

\* get_range_event_logs as one function of the range, when no request fails
\* (rpc.rs:91-179): page 1, last_page from its total_count, then the pages
\* 2..=last_page, each handled and appended in turn.
RunAlone(self, r) ==
    LET contract_address == get_contract_addr(self).value
        query == Query(self, r, contract_address)
        first == tx_search(query, 1, PAGINATION_LIMIT, SearchOrder).value
        last == LastPage(first.total_count)
        logs == [p \in 1..Max(1, last) |->
                   handler(self, contract_address,
                           IF p = 1 THEN first.txs
                           ELSE tx_search(query, p, PAGINATION_LIMIT, SearchOrder).value.txs)]
    IN  Concat(logs, 1, Max(1, last))

\* The last_page computation on one total_count.
Paging(total_count) ==
    [total_count |-> total_count, last_page |-> LastPageU32(total_count)]

(***************************************************************************)
(* Specification of one call at a time.                                    *)
(***************************************************************************)
Chains == [1..MaxHeight -> BlockSizes]

Shapes == TxKinds \X TxKinds

IdleCalls ==
    /\ pc = [c \in Calls |-> "idle"]
    /\ range = [c \in Calls |-> <<0, 0>>]
    /\ page = [c \in Calls |-> 0]
    /\ last_page = [c \in Calls |-> 0]
    /\ result = [c \in Calls |-> <<>>]
    /\ requests = [c \in Calls |-> <<>>]
    /\ failed = [c \in Calls |-> <<>>]
    /\ totals = [c \in Calls |-> <<>>]
    /\ ret = [c \in Calls |-> Ok(<<>>)]
    /\ hpc = "idle"
    /\ hret = Ok(0)
    /\ hasked = <<>>
    /\ paging = Paging(<<0, 0>>)

Init ==
    /\ blocks \in Chains
    /\ shape \in Shapes
    /\ head = [hi |-> 0, lo |-> MaxHeight]
    /\ visible = MaxHeight
    /\ indexer = NotConstructed
    /\ IdleCalls

Next ==
    \/ \E conf \in Confs, locator \in Locators, event_type \in EventTypes :
          New(conf, locator, event_type)
    \/ \E r \in Ranges : get_range_event_logs("A", r)
    \/ TxSearchOk("A")
    \/ TxSearchErr("A")

Spec == Init /\ [][Next]_vars

(***************************************************************************)
(* Specification of concurrent calls on one shared indexer: two calls of   *)
(* get_range_event_logs and calls of latest_block_height, their awaits     *)
(* interleaved in every way.                                               *)
(***************************************************************************)
ConcBlockSizes == {101}

ConcShapes == { <<"ok", "failed">>, <<"mixed", "ok">> }

\* The ranges of the concurrent calls: the chain, and its two parts on
\* either side of the first block boundary.
ConcRanges == { <<1, MaxHeight>>, <<1, 1>>, <<2, MaxHeight>> }

InitConc ==
    /\ blocks \in [1..MaxHeight -> ConcBlockSizes]
    /\ shape \in ConcShapes
    /\ head = [hi |-> 0, lo |-> MaxHeight]
    /\ visible = MaxHeight
    /\ indexer = NotConstructed
    /\ IdleCalls

NextConc ==
    \/ \E locator \in Locators, event_type \in EventTypes :
          New(GoodConf, locator, event_type)
    \/ \E c \in Calls, r \in ConcRanges : get_range_event_logs(c, r)
    \/ \E c \in Calls : TxSearchOk(c)
    \/ \E c \in Calls : TxSearchErr(c)
    \/ latest_block_height
    \/ LatestBlockOk
    \/ LatestBlockErr

SpecConc == InitConc /\ [][NextConc]_vars

(***************************************************************************)
(* Specification of paging: one call against a node that goes on indexing  *)
(* blocks while the call runs, so that the total_count of later responses  *)
(* differs from the first; and the last_page computation on total_count    *)
(* values from the whole range of u32.                                     *)
(***************************************************************************)
PageBlockSizes == {50, 150}

PageShapes == { <<"ok", "ok">>, <<"ok", "foreign">> }

\* total_count values at both ends of u32: hi * 2^16 + lo, up to 2^32 - 1.
WideTotals == { <<hi, lo>> : hi \in {0, 65535}, lo \in {0, 1, 100, 65440, 65535} }

\* The node indexes the transactions of one more block.
NodeIndexes ==
    /\ visible < MaxHeight
    /\ visible' = visible + 1
    /\ UNCHANGED <<blocks, shape, head, indexer, callVars, heightVars, paging>>

\* last_page is computed from a total_count (rpc.rs:117-119).
ComputeLastPage(total_count) ==
    /\ paging' = Paging(total_count)
    /\ UNCHANGED <<nodeVars, indexer, callVars, heightVars>>

InitPages ==
    /\ blocks \in [1..MaxHeight -> PageBlockSizes]
    /\ shape \in PageShapes
    /\ head = [hi |-> 0, lo |-> MaxHeight]
    /\ visible = 1
    /\ indexer = NotConstructed
    /\ IdleCalls

NextPages ==
    \/ \E locator \in Locators, event_type \in EventTypes :
          New(GoodConf, locator, event_type)
    \/ \E r \in Ranges : get_range_event_logs("A", r)
    \/ TxSearchOk("A")
    \/ TxSearchErr("A")
    \/ NodeIndexes
    \/ \E total_count \in WideTotals : ComputeLastPage(total_count)

SpecPages == InitPages /\ [][NextPages]_vars

(***************************************************************************)
(* Specification of latest_block_height against a node whose head grows,   *)
(* past the range of u32 included.                                         *)
(***************************************************************************)
\* The u64 heights of the head: hi * 2^32 + lo.
Heads == [hi : 0..MaxHeight, lo : {MaxHeight, MaxLow}]

HeadBefore(h1, h2) == h1.hi < h2.hi \/ (h1.hi = h2.hi /\ h1.lo < h2.lo)

\* The chain grows: the node reports a greater head.
NodeAdvance(h) ==
    /\ HeadBefore(head, h)
    /\ head' = h
    /\ UNCHANGED <<blocks, shape, visible, indexer, callVars, heightVars, paging>>

InitHeight ==
    /\ blocks = [h \in 1..MaxHeight |-> 100]
    /\ shape = <<"ok", "ok">>
    /\ head = [hi |-> 0, lo |-> MaxHeight]
    /\ visible = MaxHeight
    /\ indexer = NotConstructed
    /\ IdleCalls

NextHeight ==
    \/ \E conf \in Confs, locator \in Locators, event_type \in EventTypes :
          New(conf, locator, event_type)
    \/ latest_block_height
    \/ LatestBlockOk
    \/ LatestBlockErr
    \/ \E h \in Heads : NodeAdvance(h)

SpecHeight == InitHeight /\ [][NextHeight]_vars


(***************************************************************************)
(* Properties.                                                             *)
(***************************************************************************)
\* Call c has returned Ok.
DoneOk(c) == pc[c] = "done" /\ ret[c].ok

\* The contract address and the query of the indexer's calls.
ContractAddr == get_contract_addr(indexer).value

QueryOf(c) == Query(indexer, range[c], ContractAddr)

\* The position <<block, transaction index>> of a transaction or a LogMeta.
TxPos(tx) == <<tx.height, tx.index>>

MetaPos(meta) == <<meta.block_number, meta.transaction_index>>

\* meta1 is before meta2 in (block_number, transaction_index, log_index) order.
MetaBefore(m1, m2) ==
    \/ m1.block_number < m2.block_number
    \/ /\ m1.block_number = m2.block_number
       /\ \/ m1.transaction_index < m2.transaction_index
          \/ /\ m1.transaction_index = m2.transaction_index
             /\ m1.log_index < m2.log_index

Ascending(logs) ==
    \A i \in 1..(Len(logs) - 1) : MetaBefore(logs[i][2], logs[i + 1][2])

\* C1: the sequence a call returns is in ascending (block_number,
\* transaction_index, log_index) order, whatever the range, the chain and the
\* number of pages it was gathered from.
C1_AscendingOrder ==
    \A c \in Calls : DoneOk(c) => Ascending(ret[c].value)

\* A call gathered three pages, from both blocks, and returned their logs.
C1_Witness ==
    /\ DoneOk("A")
    /\ requests["A"] = <<1, 2, 3>>
    /\ Len(ret["A"].value) > 2 * PAGINATION_LIMIT
    /\ ret["A"].value[1][2].block_number
          < ret["A"].value[Len(ret["A"].value)][2].block_number

\* The logs the indexer owes for one transaction: of each event it keeps, the
\* decoded body and the LogMeta of the event's place.
OwedLogs(tx) ==
    { <<parser(tx.events[k].attributes).value, LogMetaOf(ContractAddr, tx, k - 1)>> :
        k \in { j \in 1..Len(tx.events) : Kept(indexer, tx.events[j]) } }

\* The set of the entries of a sequence.
Entries(logs) == { logs[i] : i \in 1..Len(logs) }

\* C2: no event of a transaction whose execution failed is in the result of
\* a call, and every event owed for a successful matching transaction is,
\* also when a failed transaction shares its block and its page.
C2_FailedTxSkipped ==
    \A c \in Calls : DoneOk(c) =>
        LET got == Entries(ret[c].value)
            at == { MetaPos(e[2]) : e \in got }
            query == QueryOf(c)
        IN  \A h \in 1..MaxHeight : \A i \in 0..(blocks[h] - 1) :
               LET tx == TxAt(h, i) IN
               /\ tx.code_is_err => TxPos(tx) \notin at
               /\ (~tx.code_is_err /\ Matches(tx, query)) => OwedLogs(tx) \subseteq got

\* A call returned logs of a block in which failed and successful matching
\* transactions alternate.
C2_Witness ==
    /\ DoneOk("A")
    /\ shape \in {<<"failed", "ok">>, <<"mixed", "failed">>}
    /\ Len(ret["A"].value) >= PAGINATION_LIMIT \div 2
    /\ Len(requests["A"]) >= 2

\* The result of the single-page query for page p of call c's query, alone.
PageAlone(c, p) ==
    handler(indexer, ContractAddr,
            tx_search(QueryOf(c), p, PAGINATION_LIMIT, "Ascending").value.txs)

\* The number of pages of n matches.
PagesOf(n) == (n + PAGINATION_LIMIT - 1) \div PAGINATION_LIMIT

\* C3: pagination is transparent: the result of a call is the concatenation,
\* in page order, of the results of the single-page queries for its pages,
\* and is what handling all the matching transactions at once gives: each
\* matching transaction is handled once.
C3_PaginationTransparent ==
    \A c \in Calls : DoneOk(c) =>
        LET all == SearchAll(QueryOf(c), "Ascending")
            n == PagesOf(Len(all))
            pages == [p \in 1..n |-> PageAlone(c, p)]
        IN  /\ ret[c].value = Concat(pages, 1, n)
            /\ ret[c].value = handler(indexer, ContractAddr, all)

\* A call over 250 matching transactions returned after pages of 100, 100, 50.
C3_Witness ==
    /\ DoneOk("A")
    /\ Len(SearchAll(QueryOf("A"), "Ascending")) = 2 * PAGINATION_LIMIT + PAGINATION_LIMIT \div 2
    /\ requests["A"] = <<1, 2, 3>>
    /\ Len(tx_search(QueryOf("A"), 3, PAGINATION_LIMIT, "Ascending").value.txs)
          = PAGINATION_LIMIT \div 2


\* C6 (as claimed): a call over an inverted interval, on an indexer built
\* from the node's own configuration, returns Ok of the empty sequence
\* whether or not its tx_search succeeds.
C6_InvertedRangeReturnsEmpty ==
    \A c \in Calls :
        (pc[c] = "done" /\ indexer.conf = GoodConf /\ range[c][1] > range[c][2])
            => ret[c] = Ok(<<>>)

\* The event a LogMeta points at.
EventAt(meta) ==
    TxAt(meta.block_number, meta.transaction_index).events[meta.log_index + 1]

\* C7: an event of the target kind that the parser rejects is left out and
\* the call still succeeds: every returned entry is the decoding of the
\* event at its place, every event owed for a successful matching transaction
\* is returned with the LogMeta of its place, and a call returns an error
\* only when the client, the contract address or a tx_search failed.
C7_RejectedEventDropped ==
    \A c \in Calls :
        /\ DoneOk(c) =>
              LET got == Entries(ret[c].value)
                  query == QueryOf(c)
              IN  /\ \A e \in got : parser(EventAt(e[2]).attributes) = Some(e[1])
                  /\ \A h \in 1..MaxHeight : \A i \in 0..(blocks[h] - 1) :
                        (~TxAt(h, i).code_is_err /\ Matches(TxAt(h, i), query))
                            => OwedLogs(TxAt(h, i)) \subseteq got
        /\ (pc[c] = "done" /\ ~ret[c].ok) =>
              \/ ~get_client(indexer).ok
              \/ ~get_contract_addr(indexer).ok
              \/ failed[c] # <<>>

\* A call returned the event that follows a rejected event in its transaction,
\* and not the rejected one.
C7_Witness ==
    /\ DoneOk("A")
    /\ \E i \in 1..Len(ret["A"].value) :
          LET meta == ret["A"].value[i][2]
              tx == TxAt(meta.block_number, meta.transaction_index)
          IN  /\ meta.log_index = 4
              /\ ~parser(tx.events[3].attributes).some
              /\ \A j \in 1..Len(ret["A"].value) :
                    MetaPos(ret["A"].value[j][2]) = MetaPos(meta)
                        => ret["A"].value[j][2].log_index # 2

\* C8 (as claimed): an indexer that was constructed has a prefix under which
\* its contract address converts to the address the chain knows the contract
\* by, so that no call fails or matches nothing because of the prefix.
C8_PrefixValidatedAtConstruction ==
    indexer.constructed =>
        /\ get_contract_addr(indexer).ok
        /\ get_contract_addr(indexer).value = NativeAddr(indexer.address)

\* C9: a call never retries: it requests pages 1, 2, ... each once, and when
\* a tx_search fails the call is over, it has returned the error and nothing
\* of what it had gathered, and the failed page is the last it requested.
C9_NoRetry ==
    \A c \in Calls :
        /\ requests[c] = [k \in 1..Len(requests[c]) |-> k]
        /\ failed[c] # <<>> =>
              /\ pc[c] = "done"
              /\ ret[c] \in { Err(e) : e \in {"transport", "page out of range"} }
              /\ result[c] = <<>>
              /\ failed[c] = << Len(requests[c]) >>

\* The tx_search for page 2 failed after page 1 had been gathered.
C9_Witness ==
    /\ failed["A"] = <<2>>
    /\ requests["A"] = <<1, 2>>
    /\ pc["A"] = "done"
    /\ ~ret["A"].ok


\* Two calls returned Ok.
BothOk(c1, c2) == c1 # c2 /\ DoneOk(c1) /\ DoneOk(c2)

\* C4: scanning a range in two adjacent parts gives, concatenated, what
\* scanning it at once gives: for two calls over [a, b] and [b+1, c] that
\* returned, and for every split of the range of a call that returned.
C4_RangeSplit ==
    /\ \A c1, c2 \in Calls :
          (/\ BothOk(c1, c2)
           /\ range[c1][1] <= range[c1][2]
           /\ range[c2][1] = range[c1][2] + 1
           /\ range[c2][1] <= range[c2][2])
              => ret[c1].value \o ret[c2].value
                    = RunAlone(indexer, <<range[c1][1], range[c2][2]>>)
    /\ \A c \in Calls : DoneOk(c) =>
          \A b \in range[c][1]..(range[c][2] - 1) :
              ret[c].value = RunAlone(indexer, <<range[c][1], b>>)
                                \o RunAlone(indexer, <<b + 1, range[c][2]>>)

\* Two calls over [1, 1] and [2, MaxHeight] returned logs, several pages in all.
C4_Witness ==
    /\ BothOk("A", "B")
    /\ range["A"] = <<1, 1>>
    /\ range["B"] = <<2, MaxHeight>>
    /\ Len(requests["A"]) + Len(requests["B"]) >= 3
    /\ ret["A"].value # <<>>
    /\ ret["B"].value # <<>>

\* C5: two calls with the same range return identical sequences.
C5_Idempotent ==
    \A c1, c2 \in Calls :
        (BothOk(c1, c2) /\ range[c1] = range[c2]) => ret[c1].value = ret[c2].value

\* Two calls over the whole chain returned the logs of several pages.
C5_Witness ==
    /\ BothOk("A", "B")
    /\ range["A"] = <<1, MaxHeight>>
    /\ range["B"] = <<1, MaxHeight>>
    /\ Len(requests["A"]) >= 2
    /\ Len(ret["A"].value) > PAGINATION_LIMIT

\* The result of every call that has returned is the result of the call alone,
\* and latest_block_height returns the head.
IndependentResults ==
    /\ \A c \in Calls : DoneOk(c) => ret[c].value = RunAlone(indexer, range[c])
    /\ (hpc = "done" /\ hret.ok) => hret.value = AsU32(head)

\* No step changes a field of the constructed indexer.
IndexerUnchanged == indexer.constructed => indexer' = indexer

\* C10: concurrent calls on one shared indexer are independent: however the
\* page fetches of the calls interleave, each call returns what it returns
\* alone, and no call changes conf, domain, address or event_type.
C10_ConcurrentCallsIndependent ==
    [](IndependentResults) /\ [][IndexerUnchanged]_vars

\* Both calls had a request in flight at once, after each had gathered a page,
\* while latest_block_height was awaiting too; one has since returned.
C10_Witness ==
    /\ DoneOk("A")
    /\ Len(requests["A"]) >= 2
    /\ pc["B"] = "await"
    /\ page["B"] >= 2
    /\ result["B"] # <<>>
    /\ hpc = "await"


\* The place <<height, index, position>> of the event that carries a body: the
\* chain gives every event a body of its own (TxEvents).
PlaceOfBody(body) == << body \div 10000, (body % 10000) \div 10, body % 10 >>

\* The <<block_number, transaction_index, log_index>> of a LogMeta.
MetaPlace(meta) == <<meta.block_number, meta.transaction_index, meta.log_index>>

\* C11: every returned entry carries the height of its transaction as
\* block_number, the transaction's index in its block as transaction_index
\* and, as log_index, the position of its event in the transaction's whole
\* event list; the event is of kind wasm-<event_type>; and no two returned
\* entries share a place.
C11_LogMetaIsPlace ==
    \A c \in Calls : DoneOk(c) =>
        LET logs == ret[c].value IN
        /\ \A n \in 1..Len(logs) :
              LET place == PlaceOfBody(logs[n][1])
                  meta == logs[n][2]
              IN  /\ place[1] \in 1..MaxHeight
                  /\ place[2] \in 0..(blocks[place[1]] - 1)
                  /\ LET tx == TxAt(place[1], place[2]) IN
                     /\ place[3] + 1 \in 1..Len(tx.events)
                     /\ tx.events[place[3] + 1].attributes.body = logs[n][1]
                     /\ tx.events[place[3] + 1].kind = <<WASM_TYPE, indexer.event_type>>
                     /\ meta.block_number = tx.height
                     /\ meta.transaction_index = tx.index
                     /\ meta.log_index = place[3]
        /\ Cardinality({ MetaPlace(logs[n][2]) : n \in 1..Len(logs) }) = Len(logs)

\* A call returned two events of one transaction, at positions 1 and 3 of its
\* event list: an event of another kind lies before them, a rejected event
\* between them.
C11_Witness ==
    /\ DoneOk("A")
    /\ "mixed" \in {shape[1], shape[2]}
    /\ \E n \in 1..(Len(ret["A"].value) - 1) :
          /\ ret["A"].value[n][2].log_index = 1
          /\ ret["A"].value[n + 1][2].log_index = 3
          /\ MetaPos(ret["A"].value[n][2]) = MetaPos(ret["A"].value[n + 1][2])

\* C12: every LogMeta a call gathers or returns has the zero hash as block_hash.
C12_BlockHashZero ==
    \A c \in Calls :
        /\ \A n \in 1..Len(result[c]) : result[c][n][2].block_hash = 0
        /\ DoneOk(c) => \A n \in 1..Len(ret[c].value) : ret[c].value[n][2].block_hash = 0

\* A call returned logs of three pages and of both blocks.
C12_Witness ==
    /\ DoneOk("A")
    /\ Len(requests["A"]) = 3
    /\ ret["A"].value # <<>>
    /\ ret["A"].value[1][2].block_number = 1
    /\ ret["A"].value[Len(ret["A"].value)][2].block_number = MaxHeight

\* The pages 1..n in order, each once.
PagesUpTo(n) == [k \in 1..n |-> k]

\* The number of pages of PAGINATION_LIMIT that hold total_count
\* transactions, total_count = hi * 2^16 + lo taken by its halves:
\* 2^16 = 655 * 100 + 36, so total_count = 100 * 655 * hi + (36 * hi + lo).
PagesHolding(total_count) ==
    655 * total_count[1]
        + ((36 * total_count[1] + total_count[2] + PAGINATION_LIMIT - 1)
              \div PAGINATION_LIMIT)

\* C13: the tx_search requests of a call are page 1, then the pages
\* 2..last_page in order, each once, where last_page is the number of pages
\* that hold the total_count of the response to page 1; the total_count of
\* later responses changes nothing; page 1 is requested even when nothing
\* matches; and the computation of last_page leaves the range of u32 for no
\* total_count.
C13_PagesRequested ==
    /\ \A c \in Calls :
          /\ requests[c] = PagesUpTo(Len(requests[c]))
          /\ (pc[c] # "idle" /\ get_client(indexer).ok /\ get_contract_addr(indexer).ok)
                => Len(requests[c]) >= 1
          /\ totals[c] # <<>> =>
                Len(requests[c]) <= Max(1, PagesHolding(ToU32(totals[c][1])))
          /\ DoneOk(c) =>
                /\ requests[c] = PagesUpTo(Max(1, PagesHolding(ToU32(totals[c][1]))))
                /\ Len(totals[c]) = Len(requests[c])
    /\ ~paging.last_page.overflow
    /\ FromU32(paging.last_page.value) = PagesHolding(paging.total_count)

\* A call that returned after two pages, the node having reported 150
\* matches with page 1 and more with page 2; and last_page computed for
\* the total_count 2^32 - 1.
C13_Witness ==
    /\ DoneOk("A")
    /\ requests["A"] = <<1, 2>>
    /\ Len(totals["A"]) = 2
    /\ totals["A"][1] = 150
    /\ totals["A"][2] > 200
    /\ paging.total_count = <<65535, 65535>>

\* A call that found nothing still asked for page 1, and for no other.
C13_WitnessZero ==
    /\ DoneOk("A")
    /\ totals["A"] = <<0>>
    /\ requests["A"] = <<1>>

\* C14: a latest_block_height that returned a height asked the node once in
\* that call, and returned what the node then reported, as a u32: the height
\* itself when it is below 2^32, and its low 32 bits, with no error, when
\* it is not.
C14_LatestBlockHeight ==
    (hpc = "done" /\ hret.ok) =>
        /\ Len(hasked) = 1
        /\ hret.value = hasked[1].lo
        /\ hasked[1].hi = 0 => [hi |-> 0, lo |-> hret.value] = hasked[1]

\* A call returned MaxHeight while the node reported 2^32 + MaxHeight.
C14_Witness ==
    /\ hpc = "done"
    /\ hret = Ok(MaxHeight)
    /\ hasked = << [hi |-> 1, lo |-> MaxHeight] >>


=========================================================================
